---------------------------- MODULE Spec2Model ----------------------------
(***************************************************************************)
(* A model of musicbrainzngs/musicbrainz.py: the validation tables and     *)
(* checks, the _rate_limit decorator with its lock and token accounting,   *)
(* and _mb_request with the query, search and browse wrappers around it.   *)
(*                                                                         *)
(* Numbers.  The code computes with floats.  Here the clock counts ticks   *)
(* of 1/TicksPerSecond second and the token count is kept in units of      *)
(* 1/Scale request, so that 0.999 and every refill of the configurations   *)
(* explored are exact integers.  time.sleep(s) advances the clock by s     *)
(* rounded up to a whole tick (a sleep never returns early); any further   *)
(* delay is a Tick.                                                        *)
(***************************************************************************)
EXTENDS Integers, Sequences, FiniteSets, TLC

VARIABLES
    clock,               \* time.time(), in ticks
    do_rate_limit,       \* module global, line 295
    limit_interval,      \* module global, line 293, in ticks
    limit_requests,      \* module global, line 294, in 1/Fraction requests
    remaining_requests,  \* _rate_limit.remaining_requests: <<>> is None, else <<units>>
    last_call,           \* _rate_limit.last_call, in ticks
    lock,                \* _rate_limit.lock: "free" or the thread holding it
    pc,                  \* per thread: where it is in the call
    op,                  \* per thread: the operation it called
    result,              \* per thread: how its last operation ended
    status_code,         \* per thread: resp.status_code of its operation, "none" without a response
    _useragent,          \* module global, line 262
    _client,             \* module global, line 261
    sends,               \* number of session.send invocations made
    calls,               \* number of operations started
    admitted,            \* number of debits made (line 363)
    first_admit,         \* clock of the first debit
    burst,               \* debits since the last refill that found a full interval elapsed
    args,                \* arguments of the validator under test
    ret                  \* what that validator returned or raised

vars == <<clock, do_rate_limit, limit_interval, limit_requests,
          remaining_requests, last_call, lock, pc, op, result, status_code,
          _useragent, _client, sends, calls, admitted, first_admit, burst,
          args, ret>>

-----------------------------------------------------------------------------
(* Constants for validation.                                               *)

_version == "0.5dev"

RELATABLE_TYPES ==
    <<"area", "artist", "label", "recording", "release", "release-group",
      "url", "work">>

RELATION_INCLUDES ==
    {RELATABLE_TYPES[i] \o "-rels" : i \in 1..Len(RELATABLE_TYPES)}

VALID_INCLUDES ==
    [artist |->
        {"recordings", "releases", "release-groups", "works",
         "various-artists", "discids", "media",
         "aliases", "tags", "user-tags", "ratings", "user-ratings",
         "annotation"} \cup RELATION_INCLUDES,
     annotation |-> {},
     label |->
        {"releases", "discids", "media",
         "aliases", "tags", "user-tags", "ratings", "user-ratings",
         "annotation"} \cup RELATION_INCLUDES,
     recording |->
        {"artists", "releases", "discids", "media", "artist-credits",
         "tags", "user-tags", "ratings", "user-ratings",
         "annotation", "aliases"} \cup RELATION_INCLUDES,
     release |->
        {"artists", "labels", "recordings", "release-groups", "media",
         "artist-credits", "discids", "puids", "echoprints", "isrcs",
         "recording-level-rels", "work-level-rels", "annotation", "aliases"}
        \cup RELATION_INCLUDES,
     work |->
        {"artists", "aliases", "tags", "user-tags", "ratings", "user-ratings",
         "annotation"} \cup RELATION_INCLUDES,
     url |-> RELATION_INCLUDES,
     discid |->
        {"artists", "labels", "recordings", "release-groups", "media",
         "artist-credits", "discids", "puids", "echoprints", "isrcs",
         "recording-level-rels", "work-level-rels"} \cup RELATION_INCLUDES,
     echoprint |-> {"artists", "releases"},
     puid |-> {"artists", "releases", "puids", "echoprints", "isrcs"},
     isrc |-> {"artists", "releases", "puids", "echoprints", "isrcs"},
     iswc |-> {"artists"},
     collection |-> {"releases"}]
    @@ ("release-group" :>
        ({"artists", "releases", "discids", "media",
          "artist-credits", "tags", "user-tags", "ratings", "user-ratings",
          "annotation", "aliases"} \cup RELATION_INCLUDES))

VALID_BROWSE_INCLUDES ==
    [releases |->
        {"artist-credits", "labels", "recordings", "release-groups", "media",
         "discids"} \cup RELATION_INCLUDES,
     recordings |->
        {"artist-credits", "tags", "ratings", "user-tags", "user-ratings"}
        \cup RELATION_INCLUDES,
     labels |->
        {"aliases", "tags", "ratings", "user-tags", "user-ratings"}
        \cup RELATION_INCLUDES,
     artists |->
        {"aliases", "tags", "ratings", "user-tags", "user-ratings"}
        \cup RELATION_INCLUDES,
     urls |-> RELATION_INCLUDES]
    @@ ("release-groups" :>
        ({"artist-credits", "tags", "ratings", "user-tags", "user-ratings"}
         \cup RELATION_INCLUDES))

VALID_RELEASE_TYPES ==
    {"nat", "album", "single", "ep", "compilation", "soundtrack",
     "spokenword", "interview", "audiobook", "live", "remix", "other"}

VALID_RELEASE_STATUSES == {"official", "promotion", "bootleg", "pseudo-release"}

VALID_SEARCH_FIELDS ==
    [annotation |-> {"entity", "name", "text", "type"},
     artist |->
        {"arid", "artist", "artistaccent", "alias", "begin", "comment",
         "country", "end", "ended", "gender", "ipi", "sortname", "tag", "type"},
     label |->
        {"alias", "begin", "code", "comment", "country", "end", "ended",
         "ipi", "label", "labelaccent", "laid", "sortname", "type", "tag"},
     recording |->
        {"arid", "artist", "artistname", "creditname", "comment",
         "country", "date", "dur", "format", "isrc", "number",
         "position", "primarytype", "puid", "qdur", "recording",
         "recordingaccent", "reid", "release", "rgid", "rid",
         "secondarytype", "status", "tnum", "tracks", "tracksrelease",
         "tag", "type"},
     release |->
        {"arid", "artist", "artistname", "asin", "barcode", "creditname",
         "catno", "comment", "country", "date", "discids",
         "discidsmedium", "format", "laid", "label", "lang", "mediums",
         "primarytype", "puid", "reid", "release", "releaseaccent",
         "rgid", "script", "secondarytype", "status", "tag", "tracks",
         "tracksmedium", "type"},
     work |->
        {"alias", "arid", "artist", "comment", "iswc", "lang", "tag",
         "type", "wid", "work", "workaccent"}]
    @@ ("release-group" :>
        {"arid", "artist", "artistname", "comment", "creditname",
         "primarytype", "rgid", "releasegroup", "releasegroupaccent",
         "releases", "release", "reid", "secondarytype", "status",
         "tag", "type"})

(* The exception classes (lines 141-197): each class with its bases.       *)
Bases ==
    [MusicBrainzError |-> {"MusicBrainzError"},
     UsageError |-> {"UsageError", "MusicBrainzError"},
     InvalidSearchFieldError |->
        {"InvalidSearchFieldError", "UsageError", "MusicBrainzError"},
     InvalidIncludeError |->
        {"InvalidIncludeError", "UsageError", "MusicBrainzError"},
     InvalidFilterError |->
        {"InvalidFilterError", "UsageError", "MusicBrainzError"},
     WebServiceError |-> {"WebServiceError", "MusicBrainzError"},
     NetworkError |-> {"NetworkError", "WebServiceError", "MusicBrainzError"},
     ResponseError |-> {"ResponseError", "WebServiceError", "MusicBrainzError"},
     AuthenticationError |->
        {"AuthenticationError", "WebServiceError", "MusicBrainzError"},
     ValueError |-> {"ValueError"},
     Exception |-> {"Exception"}]

(* isinstance(e, cls) for an exception named e; "OK" is no exception.      *)
IsInstance(e, cls) == e \in DOMAIN Bases /\ cls \in Bases[e]

-----------------------------------------------------------------------------
(* Helpers for validating and formatting allowed sets.                     *)

(* "sep".join(s)                                                           *)
RECURSIVE Join(_, _)
Join(sep, s) ==
    IF s = <<>> THEN ""
    ELSE IF Len(s) = 1 THEN s[1]
    ELSE s[1] \o sep \o Join(sep, Tail(s))

(* A variant of _check_includes_impl that lets every relation include      *)
(* through, whatever the list of valid includes.                           *)
RECURSIVE _check_includes_impl_rels(_, _)
_check_includes_impl_rels(includes, valid_includes) ==
    IF includes = <<>> THEN [err |-> "OK", reason |-> ""]
    ELSE IF Head(includes) \notin valid_includes \cup RELATION_INCLUDES
         THEN [err |-> "InvalidIncludeError", reason |-> Head(includes)]
         ELSE _check_includes_impl_rels(Tail(includes), valid_includes)

(* The exception _check_includes_impl raises, with the offending include,  *)
(* or "OK": the loop stops at the first include that is not valid.         *)
RECURSIVE _check_includes_impl(_, _)
_check_includes_impl(includes, valid_includes) ==
    IF includes = <<>> THEN [err |-> "OK", reason |-> ""]
    ELSE IF Head(includes) \notin valid_includes
         THEN [err |-> "InvalidIncludeError", reason |-> Head(includes)]
         ELSE _check_includes_impl(Tail(includes), valid_includes)

_check_includes(entity, inc) ==
    _check_includes_impl(inc, VALID_INCLUDES[entity])

RECURSIVE _check_filter(_, _)
_check_filter(values, valid) ==
    IF values = <<>> THEN [err |-> "OK", reason |-> ""]
    ELSE IF Head(values) \notin valid
         THEN [err |-> "InvalidFilterError", reason |-> Head(values)]
         ELSE _check_filter(Tail(values), valid)

(* An argument that may be a string or a list: <<"str", s>> or             *)
(* <<"list", seq>>; lines 219-222 wrap a string into a one-element list.   *)
AsList(x) == IF x[1] = "str" THEN <<x[2]>> ELSE x[2]

InSeq(x, s) == \E i \in 1..Len(s) : s[i] = x

(* A dict is a set of <<key, value>> pairs.                                *)
DictKeys(d) == {p[1] : p \in d}
DictGet(d, k) == (CHOOSE p \in d : p[1] = k)[2]
DictSet(d, k, v) == {p \in d : p[1] # k} \cup {<<k, v>>}

(* A variant of _check_filter_and_make_params whose status rule forgets    *)
(* the entity.                                                             *)
_check_filter_and_make_params_no_entity(entity, includes, release_status, release_type) ==
    LET status == AsList(release_status)
        type == AsList(release_type)
        c1 == _check_filter(status, VALID_RELEASE_STATUSES)
        c2 == _check_filter(type, VALID_RELEASE_TYPES)
        p1 == IF Len(status) # 0
              THEN {<<"status", Join("|", status)>>} ELSE {}
        p2 == IF Len(type) # 0
              THEN DictSet(p1, "type", Join("|", type)) ELSE p1
    IN  IF c1.err # "OK" THEN [err |-> c1.err, reason |-> c1.reason, params |-> {}]
        ELSE IF c2.err # "OK"
             THEN [err |-> c2.err, reason |-> c2.reason, params |-> {}]
        ELSE IF status # <<>> /\ ~InSeq("releases", includes)
             THEN [err |-> "InvalidFilterError",
                   reason |-> "Can't have a status with no release include",
                   params |-> {}]
        ELSE IF type # <<>> /\ ~InSeq("release-groups", includes)
                /\ ~InSeq("releases", includes)
                /\ entity \notin {"release-group", "release"}
             THEN [err |-> "InvalidFilterError",
                   reason |-> "Can't have a release type"
                              \o "with no releases or release-groups involved",
                   params |-> {}]
        ELSE [err |-> "OK", reason |-> "", params |-> p2]

_check_filter_and_make_params(entity, includes, release_status, release_type) ==
    LET status == AsList(release_status)
        type == AsList(release_type)
        c1 == _check_filter(status, VALID_RELEASE_STATUSES)
        c2 == _check_filter(type, VALID_RELEASE_TYPES)
        p1 == IF Len(status) # 0
              THEN {<<"status", Join("|", status)>>} ELSE {}
        p2 == IF Len(type) # 0
              THEN DictSet(p1, "type", Join("|", type)) ELSE p1
    IN  IF c1.err # "OK" THEN [err |-> c1.err, reason |-> c1.reason, params |-> {}]
        ELSE IF c2.err # "OK"
             THEN [err |-> c2.err, reason |-> c2.reason, params |-> {}]
        ELSE IF status # <<>> /\ ~InSeq("releases", includes)
                /\ entity # "release"
             THEN [err |-> "InvalidFilterError",
                   reason |-> "Can't have a status with no release include",
                   params |-> {}]
        ELSE IF type # <<>> /\ ~InSeq("release-groups", includes)
                /\ ~InSeq("releases", includes)
                /\ entity \notin {"release-group", "release"}
             THEN [err |-> "InvalidFilterError",
                   reason |-> "Can't have a release type"
                              \o "with no releases or release-groups involved",
                   params |-> {}]
        ELSE [err |-> "OK", reason |-> "", params |-> p2]


-----------------------------------------------------------------------------
(* Text.  A user-supplied text (a search query or a field value) is a      *)
(* sequence of one-character strings, so that escaping, lower-casing and   *)
(* stripping are computed character by character.                          *)

LUCENE_SPECIAL ==
    {"+", "-", "&", "|", "!", "(", ")", "{", "}", "[", "]", "^", "\"", "~",
     "*", "?", ":", "\\"}

Upper == <<"A", "B", "F", "O", "R", "W">>
Lower == <<"a", "b", "f", "o", "r", "w">>

(* str.lower() of one character.                                           *)
LowerChar(c) ==
    IF \E i \in 1..Len(Upper) : Upper[i] = c
    THEN Lower[CHOOSE i \in 1..Len(Upper) : Upper[i] = c]
    ELSE c

RECURSIVE LowerText(_)
LowerText(s) ==
    IF s = <<>> THEN <<>> ELSE <<LowerChar(Head(s))>> \o LowerText(Tail(s))

(* re.sub(r'([<special>])', r'\\\1', s): a backslash before each special.  *)
RECURSIVE Escape(_, _)
Escape(s, special) ==
    IF s = <<>> THEN <<>>
    ELSE (IF Head(s) \in special THEN <<"\\", Head(s)>> ELSE <<Head(s)>>)
         \o Escape(Tail(s), special)

RECURSIVE LStrip(_)
LStrip(s) == IF s # <<>> /\ Head(s) = " " THEN LStrip(Tail(s)) ELSE s

RECURSIVE RStrip(_)
RStrip(s) ==
    IF s # <<>> /\ s[Len(s)] = " " THEN RStrip(SubSeq(s, 1, Len(s) - 1)) ELSE s

(* str.strip()                                                             *)
Strip(s) == RStrip(LStrip(s))

(* sep.join(parts) over texts.                                             *)
RECURSIVE JoinText(_, _)
JoinText(sep, parts) ==
    IF parts = <<>> THEN <<>>
    ELSE IF Len(parts) = 1 THEN parts[1]
    ELSE parts[1] \o sep \o JoinText(sep, Tail(parts))

(* str(n) of a natural number.                                             *)
RECURSIVE Str(_)
Str(n) ==
    LET digit == <<"0", "1", "2", "3", "4", "5", "6", "7", "8", "9">>
    IN  IF n < 10 THEN digit[n + 1] ELSE Str(n \div 10) \o digit[(n % 10) + 1]

(* util._unicode: the text as a unicode string; a text is one already.     *)
_unicode(s) == s

-----------------------------------------------------------------------------
(* Core functions for calling the MB API.  Each returns a record: err is   *)
(* the exception raised before _mb_request is reached ("OK" if none), and  *)
(* req the arguments _mb_request is then called with.                      *)

NoReq ==
    [path |-> "", method |-> "", auth_required |-> FALSE,
     client_required |-> FALSE, args |-> {}, body |-> FALSE]

Raise(e, why) == [err |-> e, reason |-> why, req |-> NoReq]

(* s.startswith(p), for the entity names the tables hold.                  *)
StartsWith(s, p) == \E x \in {"", "s", "-list"} : s = p \o x

(* A variant of _is_auth_required that forgets the user ratings.           *)
_is_auth_required_no_ratings(entity, includes) ==
    IF InSeq("user-tags", includes) THEN TRUE
    ELSE IF StartsWith(entity, "collection") THEN TRUE
    ELSE FALSE

_is_auth_required(entity, includes) ==
    IF InSeq("user-tags", includes) \/ InSeq("user-ratings", includes)
    THEN TRUE
    ELSE IF StartsWith(entity, "collection") THEN TRUE
    ELSE FALSE

(* A variant of _do_mb_query that goes to _mb_request without checking the *)
(* includes.                                                               *)
_do_mb_query_unchecked(entity, id, includes, params) ==
    [err |-> "OK", reason |-> "",
     req |-> [path |-> entity \o "/" \o id, method |-> "GET",
              auth_required |-> _is_auth_required(entity, includes),
              client_required |-> FALSE,
              args |-> IF Len(includes) > 0
                       THEN DictSet(params, "inc", Join(" ", includes))
                       ELSE params,
              body |-> FALSE]]

_do_mb_query(entity, id, includes, params) ==
    LET c == _check_includes(entity, includes)
        auth_required == _is_auth_required(entity, includes)
        args0 == params
        args1 == IF Len(includes) > 0
                 THEN DictSet(args0, "inc", Join(" ", includes)) ELSE args0
    IN  IF c.err # "OK" THEN Raise(c.err, c.reason)
        ELSE [err |-> "OK", reason |-> "",
              req |-> [path |-> entity \o "/" \o id, method |-> "GET",
                       auth_required |-> auth_required,
                       client_required |-> FALSE,
                       args |-> args1, body |-> FALSE]]

(* The query parts the loop over fields.items() appends (lines 493-508),   *)
(* or the first key that is not a valid search field.                      *)
RECURSIVE FieldParts(_, _, _)
FieldParts(entity, fields, strict) ==
    IF fields = <<>> THEN [bad |-> "", parts |-> <<>>]
    ELSE LET key == Head(fields)[1]
             value == Escape(_unicode(Head(fields)[2]),
                             LUCENE_SPECIAL \cup {"/"})
             rest == FieldParts(entity, Tail(fields), strict)
             part == IF value = <<>> THEN <<>>
                     ELSE IF strict
                          THEN <<<<key, ":", "\"">> \o value \o <<"\"">>>>
                          ELSE <<<<key, ":", "(">> \o LowerText(value) \o <<")">>>>
         IN  IF key \notin VALID_SEARCH_FIELDS[entity]
             THEN [bad |-> key, parts |-> <<>>]
             ELSE IF rest.bad # "" THEN rest
             ELSE [bad |-> "", parts |-> part \o rest.parts]

(* The full query of _do_mb_search (lines 481-512), fields being valid.    *)
FullQuery(query, fields, parts, strict) ==
    LET clean_query == _unicode(query)
        qpart == IF query = <<>> THEN <<>>
                 ELSE IF fields # <<>>
                      THEN IF strict
                           THEN <<<<"\"">> \o Escape(clean_query, LUCENE_SPECIAL)
                                  \o <<"\"">>>>
                           ELSE <<LowerText(Escape(clean_query, LUCENE_SPECIAL))>>
                      ELSE <<clean_query>>
        query_parts == qpart \o parts
    IN  IF strict THEN Strip(JoinText(<<" ", "A", "N", "D", " ">>, query_parts))
        ELSE Strip(JoinText(<<" ">>, query_parts))

_do_mb_search(entity, query, fields, limit, offset, strict) ==
    LET fp == FieldParts(entity, fields, strict)
        full_query == FullQuery(query, fields, fp.parts, strict)
        p0 == {<<"query", full_query>>}
        p1 == IF limit # 0 THEN DictSet(p0, "limit", Str(limit)) ELSE p0
        p2 == IF offset # 0 THEN DictSet(p1, "offset", Str(offset)) ELSE p1
    IN  IF fp.bad # "" THEN Raise("InvalidSearchFieldError", fp.bad)
        ELSE IF full_query = <<>>
             THEN Raise("ValueError", "at least one query term is required")
        ELSE _do_mb_query(entity, "", <<>>, p2)

_do_mb_delete(path) ==
    [err |-> "OK", reason |-> "",
     req |-> [path |-> path, method |-> "DELETE", auth_required |-> TRUE,
              client_required |-> TRUE, args |-> {}, body |-> FALSE]]

_do_mb_put(path) ==
    [err |-> "OK", reason |-> "",
     req |-> [path |-> path, method |-> "PUT", auth_required |-> TRUE,
              client_required |-> TRUE, args |-> {}, body |-> FALSE]]

_do_mb_post(path, body) ==
    [err |-> "OK", reason |-> "",
     req |-> [path |-> path, method |-> "POST", auth_required |-> TRUE,
              client_required |-> TRUE, args |-> {}, body |-> body]]

(* The arguments requests.Request is built with (lines 394-412), as a      *)
(* dict: the credential is attached when auth_required.                    *)
hostname == "musicbrainz.org"

Request(req) ==
    {<<"method", req.method>>,
     <<"url", "http://" \o hostname \o "/ws/2/" \o req.path>>,
     <<"params", IF req.client_required
                 THEN DictSet(req.args, "client", _client) ELSE req.args>>,
     <<"auth", IF req.auth_required THEN "HTTPDigestAuth" ELSE "None">>,
     <<"headers", IF req.body
                  THEN {<<"Content-Type", "application/xml; charset=UTF-8">>}
                  ELSE {<<"Content-Length", "0">>}>>,
     <<"data", req.body>>}

(* get_<entity>_by_id and the get_..._by_<key> lookups that take release   *)
(* filters (lines 548-593, 667-717).                                       *)
get_with_filters(entity, id, includes, release_status, release_type) ==
    LET f == _check_filter_and_make_params(entity, includes,
                                           release_status, release_type)
    IN  IF f.err # "OK" THEN Raise(f.err, f.reason)
        ELSE _do_mb_query(entity, id, includes, f.params)

(* get_work_by_id, get_url_by_id, get_works_by_iswc (lines 596-607, 720).  *)
get_without_filters(entity, id, includes) ==
    _do_mb_query(entity, id, includes, {})

(* The non-empty entries of the link parameters (lines 730-733); a link    *)
(* parameter left out is "".                                               *)
NonEmpty(params) == {p \in params : p[2] # ""}

_browse_impl(entity, includes, valid_includes, limit, offset, params, release_status, release_type) ==
    LET c == _check_includes_impl(includes, valid_includes)
        p0 == NonEmpty(params)
        p1 == IF limit # 0 THEN DictSet(p0, "limit", limit) ELSE p0
        p2 == IF offset # 0 THEN DictSet(p1, "offset", offset) ELSE p1
        filterp == _check_filter_and_make_params(entity, includes,
                                                 release_status, release_type)
        p3 == {q \in p2 : q[1] \notin DictKeys(filterp.params)}
              \cup filterp.params
    IN  IF c.err # "OK" THEN Raise(c.err, c.reason)
        ELSE IF Cardinality(p0) > 1
             THEN Raise("Exception", "Can't have more than one of")
        ELSE IF filterp.err # "OK" THEN Raise(filterp.err, filterp.reason)
        ELSE _do_mb_query(entity, "", includes, p3)

(* The key of VALID_BROWSE_INCLUDES each browse_<entities> function reads  *)
(* (lines 745-828).                                                        *)
BrowseKey(entity) == IF entity = "url" THEN "urls" ELSE entity \o "s"

(* The link parameters each browse function accepts.                       *)
BrowseLinks(entity) ==
    CASE entity = "artist" -> {"recording", "release", "release-group"}
      [] entity = "label" -> {"release"}
      [] entity = "recording" -> {"artist", "release"}
      [] entity = "release" -> {"artist", "label", "recording", "release-group"}
      [] entity = "release-group" -> {"artist", "release"}
      [] OTHER -> {"resource"}

(* browse_releases passes both filters, browse_release_groups only the     *)
(* type, the other browse functions none.                                  *)
browse(entity, links, includes, limit, offset, release_status, release_type) ==
    _browse_impl(entity, includes, VALID_BROWSE_INCLUDES[BrowseKey(entity)],
                 limit, offset,
                 {<<k, IF k \in DOMAIN links THEN links[k] ELSE "">> :
                    k \in BrowseLinks(entity)},
                 IF entity = "release" THEN release_status ELSE <<"list", <<>>>>,
                 IF entity \in {"release", "release-group"}
                 THEN release_type ELSE <<"list", <<>>>>)


-----------------------------------------------------------------------------
(* The operations a caller can invoke.  A limit or offset left out is 0,   *)
(* links maps the link parameters given to their ids.                      *)

BaseOp ==
    [kind |-> "get", entity |-> "artist", id |-> "id1", includes |-> <<>>,
     status |-> <<"list", <<>>>>, type |-> <<"list", <<>>>>,
     query |-> <<>>, fields |-> <<>>, strict |-> FALSE,
     links |-> <<>>, limit |-> 0, offset |-> 0, body |-> FALSE]

(* What the public function of operation o does up to its _mb_request.     *)
ApiCall(o) ==
    CASE o.kind = "get" ->
            get_with_filters(o.entity, o.id, o.includes, o.status, o.type)
      [] o.kind = "get_plain" ->
            get_without_filters(o.entity, o.id, o.includes)
      [] o.kind = "search" ->
            _do_mb_search(o.entity, o.query, o.fields, o.limit, o.offset,
                          o.strict)
      [] o.kind = "browse" ->
            browse(o.entity, o.links, o.includes, o.limit, o.offset,
                   o.status, o.type)
      [] o.kind = "collection" -> _do_mb_query("collection", o.id, <<>>, {})
      [] o.kind = "submit" -> _do_mb_post(o.entity, o.body)
      [] o.kind = "put" -> _do_mb_put("collection/" \o o.id)
      [] OTHER -> _do_mb_delete("collection/" \o o.id)

(* The operations explored: a valid and an invalid lookup for the limiter, *)
(* and one of every kind, valid and invalid, for the whole path.           *)
LimiterOps ==
    {BaseOp, [BaseOp EXCEPT !.includes = <<"bogus">>]}

ApiOps ==
    {BaseOp,
     [BaseOp EXCEPT !.includes = <<"bogus">>],
     [BaseOp EXCEPT !.status = <<"list", <<"official">>>>],
     [BaseOp EXCEPT !.entity = "release", !.type = <<"str", "bogus">>],
     [BaseOp EXCEPT !.entity = "recording", !.includes = <<"user-tags">>],
     [BaseOp EXCEPT !.kind = "get_plain", !.entity = "work",
                    !.includes = <<"artists", "work-rels">>],
     [BaseOp EXCEPT !.kind = "search",
                    !.fields = <<<<"bogus", <<"x">>>>>>],
     [BaseOp EXCEPT !.kind = "search"],
     [BaseOp EXCEPT !.kind = "search", !.limit = 25,
                    !.fields = <<<<"artist", <<"W", "o", "w", "!">>>>>>],
     [BaseOp EXCEPT !.kind = "browse", !.entity = "release",
                    !.links = [artist |-> "id1"],
                    !.status = <<"list", <<"official">>>>],
     [BaseOp EXCEPT !.kind = "browse", !.entity = "release",
                    !.links = [artist |-> "id1", label |-> "id2"]],
     [BaseOp EXCEPT !.kind = "browse", !.entity = "release"],
     [BaseOp EXCEPT !.kind = "browse", !.entity = "release",
                    !.links = [artist |-> "id1"],
                    !.includes = <<"annotation">>],
     [BaseOp EXCEPT !.kind = "collection", !.entity = "collection"],
     [BaseOp EXCEPT !.kind = "submit", !.entity = "release", !.body = TRUE]}

(* ApiCall, tabulated over the operations explored.                        *)
ApiTable == [o \in LimiterOps \cup ApiOps |-> ApiCall(o)]

-----------------------------------------------------------------------------
(* Rate limiting.                                                          *)

TicksPerSecond == 10 * 100
Scale == TicksPerSecond * TicksPerSecond

(* A variant of the threshold of line 357: 0.99 instead of 0.999.          *)
ThresholdLoose == 990 * (Scale \div 1000)

(* 0.999 and 1.0 requests, in units.                                       *)
Threshold == 999 * (Scale \div 1000)
One == Scale

Min(a, b) == IF a < b THEN a ELSE b
CeilDiv(a, b) == (a + b - 1) \div b

(* new_requests may be any number above 0, a fraction too (lines 311-314): *)
(* limit_requests is kept in 1/Fraction requests.                          *)
Fraction == 1 + 1

(* float(limit_requests), in units.                                        *)
Capacity == limit_requests * (Scale \div Fraction)

(* limit_requests / limit_interval, in units per tick.  It is exact for    *)
(* the configurations explored.                                            *)
Rate == (limit_requests * Scale) \div (Fraction * limit_interval)

(* A variant of _update_remaining that clamps the count at one request     *)
(* instead of limit_requests.                                              *)
_update_remaining_clamp_one(rem, last, now) ==
    IF rem = <<>>
    THEN [rem |-> Capacity, full |-> TRUE]
    ELSE [rem |-> Min(rem[1] + (now - last) * Rate, One),
          full |-> now - last >= limit_interval]

(* _update_remaining: the token count after the refill, and whether the    *)
(* refill found at least limit_interval elapsed (or was the first one).    *)
_update_remaining(rem, last, now) ==
    IF rem = <<>>
    THEN [rem |-> Capacity, full |-> TRUE]
    ELSE [rem |-> Min(rem[1] + (now - last) * Rate, Capacity),
          full |-> now - last >= limit_interval]

(* The argument of time.sleep at lines 358-359, rounded up to a tick:      *)
(* (1.0 - remaining_requests) * (limit_requests / limit_interval) seconds, *)
(* which is (One - rem) * limit_requests / limit_interval ticks.           *)
SleepTime(rem) ==
    CeilDiv((One - rem) * limit_requests, Fraction * limit_interval)

-----------------------------------------------------------------------------
(* Bounds of the exploration.                                              *)

Threads == {"t1", "t2"}
MaxCalls == 3
MaxClock == 4100
MaxClockShort == 2100
MaxClockApi == 1100
MaxLen == 2
TickStep == TicksPerSecond \div 2

(* The arguments tried for set_rate_limit: False/True, or an interval in   *)
(* ticks (0 stands for the values <= 0.0 that are rejected; the interval   *)
(* of one second is the default the module starts with), and a number of   *)
(* requests in 1/Fraction requests (0 stands for the rejected values; half *)
(* a request, one and three requests are accepted).                        *)
IntervalArgs ==
    {<<"bool", FALSE>>, <<"bool", TRUE>>, <<"num", 0>>,
     <<"num", 2 * TicksPerSecond>>}
RequestArgs == {0, 1, Fraction, 3 * Fraction}

AppArgs == {"", "app"}
VersionArgs == {"", "1.0"}
ContactArgs == {<<>>, <<"me@example.org">>}

(* What the transport and the parser can do with a request.                *)
SendOutcomes == {"RequestException", "200", "401", "500"}
ParseOutcomes == {"parsed", "UnicodeError", "ParseError", "OtherError"}

-----------------------------------------------------------------------------
(* The state after the module is imported (lines 259-262, 293-295) and     *)
(* _mb_request is decorated (lines 327-331).                               *)

NoArgs ==
    [fn |-> "none", entity |-> "", includes |-> <<>>,
     status |-> <<"list", <<>>>>, type |-> <<"list", <<>>>>]
NoRet == [err |-> "none", reason |-> "", params |-> {}]

InitLimiter ==
    /\ clock = 0
    /\ do_rate_limit = TRUE
    /\ limit_interval = TicksPerSecond
    /\ limit_requests = Fraction
    /\ remaining_requests = <<>>
    /\ last_call = 0
    /\ lock = "free"
    /\ pc = [t \in Threads |-> "idle"]
    /\ op = [t \in Threads |-> BaseOp]
    /\ result = [t \in Threads |-> "none"]
    /\ status_code = [t \in Threads |-> "none"]
    /\ _useragent = ""
    /\ _client = ""
    /\ sends = 0
    /\ calls = 0
    /\ admitted = 0
    /\ first_admit = 0
    /\ burst = 0

Init == InitLimiter /\ args = NoArgs /\ ret = NoRet

-----------------------------------------------------------------------------
(* Configuration calls.  A call that raises ValueError changes nothing.    *)

set_useragent(app, version, contact) ==
    /\ IF app = "" \/ version = ""
       THEN UNCHANGED <<_useragent, _client>>
       ELSE /\ _useragent' =
                  IF contact # <<>>
                  THEN app \o "/" \o version \o " python-musicbrainz-ngs/"
                       \o _version \o " ( " \o contact[1] \o " )"
                  ELSE app \o "/" \o version \o " python-musicbrainz-ngs/"
                       \o _version
            /\ _client' = app \o "-" \o version
    /\ UNCHANGED <<clock, do_rate_limit, limit_interval, limit_requests,
                   remaining_requests, last_call, lock, pc, op, result,
                   sends, calls, status_code>>

set_rate_limit(limit_or_interval, new_requests) ==
    /\ IF limit_or_interval[1] = "bool"
       THEN /\ do_rate_limit' = limit_or_interval[2]
            /\ UNCHANGED <<limit_interval, limit_requests>>
       ELSE IF limit_or_interval[2] <= 0 \/ new_requests <= 0
            THEN UNCHANGED <<do_rate_limit, limit_interval, limit_requests>>
            ELSE /\ do_rate_limit' = TRUE
                 /\ limit_interval' = limit_or_interval[2]
                 /\ limit_requests' = new_requests
    /\ UNCHANGED <<clock, remaining_requests, last_call, lock, pc, op, result,
                   _useragent, _client, sends, status_code>>

-----------------------------------------------------------------------------
(* A call of a public function by thread t, up to the rate-limited         *)
(* _mb_request: an exception raised on the way ends the operation.         *)
Call(t, o) ==
    /\ pc[t] \in {"idle", "done"}
    /\ calls < MaxCalls
    /\ calls' = calls + 1
    /\ op' = [op EXCEPT ![t] = o]
    /\ IF ApiTable[o].err # "OK"
       THEN /\ pc' = [pc EXCEPT ![t] = "done"]
            /\ result' = [result EXCEPT ![t] = ApiTable[o].err]
       ELSE /\ pc' = [pc EXCEPT ![t] = "acquire"]
            /\ result' = [result EXCEPT ![t] = "pending"]
    /\ status_code' = [status_code EXCEPT ![t] = "none"]
    /\ UNCHANGED <<clock, do_rate_limit, limit_interval, limit_requests,
                   remaining_requests, last_call, lock, _useragent, _client,
                   sends>>

(* A variant of Acquire that does not wait for the lock.                   *)
AcquireUnguarded(t) ==
    /\ pc[t] = "acquire"
    /\ lock' = t
    /\ pc' = [pc EXCEPT ![t] = "locked"]
    /\ UNCHANGED <<clock, do_rate_limit, limit_interval, limit_requests,
                   remaining_requests, last_call, op, result, _useragent,
                   _client, sends, calls, status_code>>

(* _rate_limit.__call__, line 352: "with self.lock" blocks until the lock  *)
(* is free.                                                                *)
Acquire(t) ==
    /\ pc[t] = "acquire"
    /\ lock = "free"
    /\ lock' = t
    /\ pc' = [pc EXCEPT ![t] = "locked"]
    /\ UNCHANGED <<clock, do_rate_limit, limit_interval, limit_requests,
                   remaining_requests, last_call, op, result, _useragent,
                   _client, sends, calls, status_code>>

(* A variant of Admit that leaves the with block before the wrapped call.  *)
AdmitReleasing(t, rem) ==
    /\ remaining_requests' = <<rem - One>>
    /\ pc' = [pc EXCEPT ![t] = "fun"]
    /\ lock' = "free"

(* Line 363, reached with rem the token count after the last refill: pay   *)
(* for the call and go on to the wrapped function, inside the with block.  *)
Admit(t, rem) ==
    /\ remaining_requests' = <<rem - One>>
    /\ pc' = [pc EXCEPT ![t] = "fun"]
    /\ UNCHANGED lock

(* Lines 349 and 357-363 after a refill to rem: the loop test, then the    *)
(* sleep or the debit.                                                     *)
Recheck(t, rem) ==
    /\ last_call' = clock
    /\ IF rem < Threshold
       THEN /\ remaining_requests' = <<rem>>
            /\ pc' = [pc EXCEPT ![t] = "sleep"]
            /\ UNCHANGED lock
       ELSE Admit(t, rem)

(* A variant of Enter that does not test do_rate_limit.                    *)
EnterAlwaysLimited(t) ==
    /\ pc[t] = "locked"
    /\ last_call' = clock
    /\ LET rem == _update_remaining(remaining_requests, last_call, clock).rem
       IN  IF rem < Threshold
           THEN /\ remaining_requests' = <<rem>>
                /\ pc' = [pc EXCEPT ![t] = "sleep"]
                /\ UNCHANGED lock
           ELSE /\ remaining_requests' = <<rem - One>>
                /\ pc' = [pc EXCEPT ![t] = "fun"]
                /\ UNCHANGED lock
    /\ UNCHANGED <<clock, do_rate_limit, limit_interval, limit_requests, op,
                   result, _useragent, _client, sends, calls, status_code>>

(* Lines 353-354: with the lock held, test do_rate_limit and refill.       *)
Enter(t) ==
    /\ pc[t] = "locked"
    /\ IF do_rate_limit
       THEN Recheck(t, _update_remaining(remaining_requests, last_call,
                                         clock).rem)
       ELSE /\ pc' = [pc EXCEPT ![t] = "fun"]
            /\ UNCHANGED <<remaining_requests, last_call, lock>>
    /\ UNCHANGED <<clock, do_rate_limit, limit_interval, limit_requests, op,
                   result, _useragent, _client, sends, calls, status_code>>

(* Lines 358-359: time.sleep returns once the time asked for has passed    *)
(* (explored up to the horizon).                                           *)
Sleep(t, horizon) ==
    /\ pc[t] = "sleep"
    /\ clock + SleepTime(remaining_requests[1]) <= horizon
    /\ clock' = clock + SleepTime(remaining_requests[1])
    /\ pc' = [pc EXCEPT ![t] = "wake"]
    /\ UNCHANGED <<do_rate_limit, limit_interval, limit_requests,
                   remaining_requests, last_call, lock, op, result,
                   _useragent, _client, sends, calls, status_code>>

(* Line 360 and the loop test after it.                                    *)
Wake(t) ==
    /\ pc[t] = "wake"
    /\ Recheck(t, _update_remaining(remaining_requests, last_call, clock).rem)
    /\ UNCHANGED <<clock, do_rate_limit, limit_interval, limit_requests, op,
                   result, _useragent, _client, sends, calls, status_code>>

(* A variant of _mb_request without the test of _useragent (line 390).     *)
_mb_request_unidentified(req, send, parse) ==
    IF send = "RequestException"
    THEN [sent |-> TRUE, raised |-> "NetworkError"]
    ELSE IF send # "200" THEN [sent |-> TRUE, raised |-> "ResponseError"]
    ELSE IF parse \in {"UnicodeError", "ParseError"}
         THEN [sent |-> TRUE, raised |-> "ResponseError"]
    ELSE IF parse = "OtherError" THEN [sent |-> TRUE, raised |-> "Exception"]
    ELSE [sent |-> TRUE, raised |-> "OK"]

(* _mb_request (lines 385-437) when the transport answers send and the    *)
(* parser answers parse: whether session.send was invoked (line 420), and  *)
(* "OK" or the exception raised.                                           *)
_mb_request(req, send, parse) ==
    IF _useragent = "" THEN [sent |-> FALSE, raised |-> "UsageError"]
    ELSE IF send = "RequestException"
         THEN [sent |-> TRUE, raised |-> "NetworkError"]
    ELSE IF send # "200" THEN [sent |-> TRUE, raised |-> "ResponseError"]
    ELSE IF parse = "UnicodeError"
         THEN [sent |-> TRUE, raised |-> "ResponseError"]
    ELSE IF parse = "ParseError"
         THEN [sent |-> TRUE, raised |-> "ResponseError"]
    ELSE IF parse = "OtherError" THEN [sent |-> TRUE, raised |-> "Exception"]
    ELSE [sent |-> TRUE, raised |-> "OK"]

(* The steps of MbRequest that concern the transport: the response is      *)
(* parsed only when the transport answered 200, and resp.status_code is    *)
(* there when session.send returned (line 420).                            *)
Exchange(t) ==
    \E send \in SendOutcomes, parse \in ParseOutcomes :
       /\ send # "200" => parse = "parsed"
       /\ LET r == _mb_request(ApiTable[op[t]].req, send, parse)
          IN  /\ result' = [result EXCEPT ![t] = r.raised]
              /\ sends' = IF r.sent THEN sends + 1 ELSE sends
              /\ status_code' =
                    [status_code EXCEPT
                       ![t] = IF r.sent /\ send # "RequestException"
                              THEN send ELSE "none"]

(* A variant of MbRequest that releases the lock only when the wrapped     *)
(* call returns, not when it raises.                                       *)
MbRequestLeaking(t) ==
    /\ pc[t] = "fun"
    /\ Exchange(t)
    /\ lock' = IF result'[t] = "OK" THEN "free" ELSE lock
    /\ pc' = [pc EXCEPT ![t] = "done"]
    /\ UNCHANGED <<clock, do_rate_limit, limit_interval, limit_requests,
                   remaining_requests, last_call, op, _useragent, _client,
                   calls>>

(* Line 364: the wrapped function runs and returns or raises; leaving the  *)
(* with block releases the lock.                                           *)
MbRequest(t) ==
    /\ pc[t] = "fun"
    /\ Exchange(t)
    /\ lock' = "free"
    /\ pc' = [pc EXCEPT ![t] = "done"]
    /\ UNCHANGED <<clock, do_rate_limit, limit_interval, limit_requests,
                   remaining_requests, last_call, op, _useragent, _client,
                   calls>>

(* Time passes, up to the horizon explored.                                *)
Tick(horizon) ==
    /\ clock + TickStep <= horizon
    /\ clock' = clock + TickStep
    /\ UNCHANGED <<do_rate_limit, limit_interval, limit_requests,
                   remaining_requests, last_call, lock, pc, op, result,
                   _useragent, _client, sends, calls, status_code>>

-----------------------------------------------------------------------------
(* The record of the admissions: how many debits were made, when the first *)
(* one was, and how many were made since the last refill that found a full *)
(* interval elapsed.  It reads the step the limiter takes and changes      *)
(* nothing of it.                                                          *)
Observe ==
    LET refiller == {t \in Threads :
                        /\ pc'[t] # pc[t]
                        /\ \/ pc[t] = "locked" /\ do_rate_limit
                           \/ pc[t] = "wake"}
        full == _update_remaining(remaining_requests, last_call, clock).full
        debit == \E t \in refiller : pc'[t] = "fun"
    IN  /\ admitted' = IF debit THEN admitted + 1 ELSE admitted
        /\ first_admit' = IF debit /\ admitted = 0 THEN clock ELSE first_admit
        /\ burst' = IF refiller = {} THEN burst
                    ELSE (IF full THEN 0 ELSE burst)
                         + (IF debit THEN 1 ELSE 0)

-----------------------------------------------------------------------------
(* SpecLimiter: the limiter under two callers, with set_rate_limit called  *)
(* at any time; MaxCalls bounds the calls of both kinds together.  The    *)
(* client identity is never set here, so every wrapped call ends at line   *)
(* 391; SpecApi covers the calls that reach the transport.                 *)

NextLimiter ==
    /\ \/ \E t \in Threads, o \in LimiterOps : Call(t, o)
       \/ \E t \in Threads : Acquire(t)
       \/ \E t \in Threads : Enter(t)
       \/ \E t \in Threads : Sleep(t, MaxClockShort)
       \/ \E t \in Threads : Wake(t)
       \/ \E t \in Threads : MbRequest(t)
       \/ Tick(MaxClockShort)
       \/ \E a \in IntervalArgs, n \in RequestArgs :
             /\ calls < MaxCalls
             /\ set_rate_limit(a, n)
             /\ calls' = calls + 1
    /\ UNCHANGED <<admitted, first_admit, burst, args, ret>>

SpecLimiter == Init /\ [][NextLimiter]_vars

-----------------------------------------------------------------------------
(* SpecFixed: set_rate_limit is called only before the first Web service   *)
(* call, as its docstring asks (lines 298-299), and the admissions are     *)
(* recorded.                                                               *)

NextFixed ==
    /\ \/ \E t \in Threads, o \in LimiterOps : Call(t, o)
       \/ \E t \in Threads : Acquire(t)
       \/ \E t \in Threads : Enter(t)
       \/ \E t \in Threads : Sleep(t, MaxClock)
       \/ \E t \in Threads : Wake(t)
       \/ \E t \in Threads : MbRequest(t)
       \/ Tick(MaxClock)
       \/ \E a \in IntervalArgs, n \in RequestArgs :
             calls = 0 /\ set_rate_limit(a, n) /\ UNCHANGED calls
    /\ Observe
    /\ UNCHANGED <<args, ret>>

SpecFixed == Init /\ [][NextFixed]_vars

-----------------------------------------------------------------------------
(* SpecApi: every kind of operation, valid and invalid, through the        *)
(* limiter in its default configuration to the transport, with the client  *)
(* identity set at any time.                                               *)

NextApi ==
    /\ \/ \E t \in Threads, o \in ApiOps : Call(t, o)
       \/ \E t \in Threads : Acquire(t)
       \/ \E t \in Threads : Enter(t)
       \/ \E t \in Threads : Sleep(t, MaxClockApi)
       \/ \E t \in Threads : Wake(t)
       \/ \E t \in Threads : MbRequest(t)
       \/ Tick(MaxClockApi)
       \/ \E a \in AppArgs, v \in VersionArgs, c \in ContactArgs :
             set_useragent(a, v, c)
    /\ UNCHANGED <<admitted, first_admit, burst, args, ret>>

SpecApi == Init /\ [][NextApi]_vars

-----------------------------------------------------------------------------
(* SpecPure: the validators applied to arguments drawn from bounded sets.  *)

SeqsUpTo(S, n) == UNION {[1..k -> S] : k \in 0..n}

Tokens ==
    UNION {VALID_INCLUDES[k] : k \in DOMAIN VALID_INCLUDES}
    \cup UNION {VALID_BROWSE_INCLUDES[k] : k \in DOMAIN VALID_BROWSE_INCLUDES}
    \cup RELATION_INCLUDES \cup {"bogus"}

IncludeInputs ==
    {[fn |-> "includes", entity |-> k, includes |-> i,
      status |-> <<"list", <<>>>>, type |-> <<"list", <<>>>>] :
        k \in DOMAIN VALID_INCLUDES,
        i \in {<<t>> : t \in Tokens}
              \cup SeqsUpTo({"artists", "artist-rels", "bogus"}, MaxLen)}

StringOrList(values) ==
    {<<"list", l>> : l \in SeqsUpTo(values, MaxLen)}
    \cup {<<"str", v>> : v \in values \cup {""}}

FilterInputs ==
    {[fn |-> "filter", entity |-> k, includes |-> i, status |-> st,
      type |-> ty] :
        k \in DOMAIN VALID_INCLUDES,
        i \in {<<>>, <<"releases">>, <<"release-groups">>, <<"artists">>,
               <<"artists", "releases">>},
        st \in StringOrList({"official", "bogus"}),
        ty \in StringOrList({"album", "bogus"})}

(* The queries whose request is built: lookups of every kind, searches    *)
(* and browses of the kinds that have them, and the collection query.      *)
QueryIncludes ==
    {<<>>, <<"user-tags">>, <<"user-ratings">>, <<"tags">>, <<"releases">>,
     <<"artist-rels">>, <<"tags", "user-tags">>, <<"user-ratings", "tags">>,
     <<"ratings", "artist-rels">>}

QueryInputs ==
    {[fn |-> f, entity |-> k, includes |-> i,
      status |-> <<"list", <<>>>>, type |-> <<"list", <<>>>>] :
        f \in {"get", "get_plain"}, k \in DOMAIN VALID_INCLUDES,
        i \in QueryIncludes}
    \cup {[fn |-> "browse", entity |-> k, includes |-> i,
           status |-> <<"list", <<>>>>, type |-> <<"list", <<>>>>] :
             k \in {"artist", "label", "recording", "release",
                    "release-group", "url"},
             i \in QueryIncludes}
    \cup {[fn |-> "search", entity |-> k, includes |-> <<>>,
           status |-> <<"list", <<>>>>, type |-> <<"list", <<>>>>] :
             k \in DOMAIN VALID_SEARCH_FIELDS}
    \cup {[fn |-> "collection", entity |-> "collection", includes |-> <<>>,
           status |-> <<"list", <<>>>>, type |-> <<"list", <<>>>>]}

(* The operation a query input stands for.                                 *)
QueryOp(a) ==
    [BaseOp EXCEPT !.kind = a.fn, !.entity = a.entity,
                   !.includes = a.includes, !.query = <<"x">>,
                   !.links = [artist |-> "id1"]]

InitPure ==
    /\ InitLimiter
    /\ args \in IncludeInputs \cup FilterInputs \cup QueryInputs
    /\ ret = NoRet

CheckIncludes ==
    /\ args.fn = "includes"
    /\ ret = NoRet
    /\ ret' = [err |-> _check_includes(args.entity, args.includes).err,
               reason |-> _check_includes(args.entity, args.includes).reason,
               params |-> {}]

CheckFilter ==
    /\ args.fn = "filter"
    /\ ret = NoRet
    /\ ret' = _check_filter_and_make_params(args.entity, args.includes,
                                            args.status, args.type)

(* A query up to the request it hands to the transport.                    *)
BuildRequest ==
    /\ args.fn \in {"get", "get_plain", "browse", "search", "collection"}
    /\ ret = NoRet
    /\ LET r == ApiCall(QueryOp(args))
       IN  ret' = [err |-> r.err, reason |-> r.reason,
                   params |-> IF r.err = "OK" THEN Request(r.req) ELSE {}]

NextPure ==
    /\ \/ CheckIncludes
       \/ CheckFilter
       \/ BuildRequest
    /\ UNCHANGED <<clock, do_rate_limit, limit_interval, limit_requests,
                   remaining_requests, last_call, lock, pc, op, result,
                   _useragent, _client, sends, calls, admitted, first_admit,
                   burst, args, status_code>>

SpecPure == InitPure /\ [][NextPure]_vars

-----------------------------------------------------------------------------
(* The claims.                                                             *)

Rem == remaining_requests[1]

(* C1 (as stated): with rate limiting enabled and maxRequests = 1, the     *)
(* (k+1)-th admission is granted no earlier than k * interval after the    *)
(* first: at every moment, the time since the first admission is at least  *)
(* (admitted - 1) * limit_interval.                                        *)
C1_AdmissionSpacing ==
    (do_rate_limit /\ limit_requests = Fraction /\ admitted >= 1)
        => clock - first_admit >= (admitted - 1) * limit_interval

(* C2 (as stated): once the token count is initialised it stays within     *)
(* 0 .. limit_requests.                                                    *)
C2_TokensInRange ==
    remaining_requests # <<>> => (0 <= Rem /\ Rem <= Capacity)

(* C2 (amended): once initialised, the token count never falls below       *)
(* -0.001, and every step that changes it (a refill, with or without the   *)
(* debit after it) leaves it at most the limit_requests of that moment; a  *)
(* later set_rate_limit may put limit_requests below it.                   *)
C2_TokensBounded ==
    /\ [](remaining_requests # <<>> => Rem >= -(Scale \div 1000))
    /\ [][remaining_requests' # remaining_requests
            => remaining_requests'[1] <= Capacity]_vars

C2_Witness == remaining_requests # <<>> /\ Rem < 0

(* C3: the token accounting is mutually exclusive: at most one caller is   *)
(* between acquiring the lock and its debit, that caller holds the lock,   *)
(* and every step that changes remaining_requests or last_call is a step   *)
(* of the lock holder, no other caller moving in it.                       *)
Accounting == {"locked", "sleep", "wake"}

C3_MutualExclusion ==
    /\ [](/\ Cardinality({t \in Threads : pc[t] \in Accounting}) <= 1
          /\ \A t \in Threads : pc[t] \in Accounting => lock = t)
    /\ [][(remaining_requests' # remaining_requests \/ last_call' # last_call)
            => /\ lock \in Threads
               /\ pc[lock] \in {"locked", "wake"}
               /\ \A t \in Threads \ {lock} : pc'[t] = pc[t]]_vars

C3_Witness ==
    \E t, u \in Threads : t # u /\ pc[t] = "sleep" /\ pc[u] = "acquire"

(* C4 (as stated): the lock is released after the debit and before the     *)
(* wrapped call: no caller is in the wrapped function holding the lock.    *)
C4_ReleasedBeforeCall == \A t \in Threads : pc[t] = "fun" => lock # t

(* C4 (amended): the wrapped call runs inside the with block: a caller in  *)
(* the wrapped function holds the lock, so the wrapped calls of two        *)
(* callers never overlap, and the lock is released in the step in which    *)
(* the wrapped call returns or raises.                                     *)
C4_CallUnderLock ==
    /\ [](/\ \A t \in Threads : pc[t] = "fun" => lock = t
          /\ Cardinality({t \in Threads : pc[t] = "fun"}) <= 1)
    /\ [][\A t \in Threads :
            (pc[t] = "fun" /\ pc'[t] # "fun")
                => (pc'[t] = "done" /\ lock' = "free")]_vars

C4_Witness ==
    \E t, u \in Threads :
        /\ t # u
        /\ pc[t] = "fun" /\ lock = t /\ _useragent # ""
        /\ pc[u] = "acquire"

(* C5 (as stated): while rate limiting is disabled no caller sleeps or     *)
(* waits, whatever the other callers are doing.                            *)
C5_NoWaitWhenDisabled ==
    ~do_rate_limit
        => \A t \in Threads :
              /\ pc[t] \notin {"sleep", "wake"}
              /\ ~(pc[t] = "acquire" /\ lock # "free")

(* C5 (amended): a caller that holds the lock and finds do_rate_limit      *)
(* False goes straight on to the wrapped call: it does not sleep and       *)
(* leaves the token count, the refill timestamp and the clock as they      *)
(* were.  (It may have waited for the lock, and a caller already in the    *)
(* sleep loop when limiting is disabled goes on with its loop.)            *)
C5_DisabledSkipsAccounting ==
    [][\A t \in Threads :
          (pc[t] = "locked" /\ ~do_rate_limit /\ pc'[t] # pc[t])
              => /\ pc'[t] = "fun"
                 /\ remaining_requests' = remaining_requests
                 /\ last_call' = last_call
                 /\ clock' = clock]_vars

C5_Witness ==
    /\ ~do_rate_limit
    /\ \E t \in Threads : pc[t] = "fun" /\ remaining_requests = <<>>

(* C6: with rate limiting enabled and the configuration fixed at a whole   *)
(* number of requests, after a refill that found at least limit_interval   *)
(* elapsed since the last one the next limit_requests admissions are       *)
(* granted without sleeping: a caller is sent to sleep only when at least  *)
(* limit_requests admissions were made since the last such refill.         *)
C6_BurstAfterIdle ==
    \A t \in Threads :
        (do_rate_limit /\ limit_requests % Fraction = 0 /\ pc[t] = "sleep")
            => burst * Fraction >= limit_requests

C6_Witness ==
    /\ do_rate_limit /\ limit_requests = 3 * Fraction
    /\ admitted = 3 /\ burst = 2
    /\ \E t \in Threads : pc[t] = "fun"

(* C7: while no set_useragent call has succeeded (_useragent is still      *)
(* empty, rejected calls included), nothing was sent to the transport and  *)
(* every operation that reached _mb_request ended with UsageError.         *)
ReachesRequest(o) == ApiTable[o].err = "OK"

C7_NoIdentityNoSend ==
    _useragent = ""
        => /\ sends = 0
           /\ \A t \in Threads :
                 (pc[t] = "done" /\ ReachesRequest(op[t]))
                     => IsInstance(result[t], "UsageError")

C7_Witness ==
    /\ _useragent = ""
    /\ \E t, u \in Threads :
          /\ pc[t] = "done" /\ op[t].kind = "submit" /\ result[t] = "UsageError"
          /\ pc[u] = "done" /\ op[u].kind = "browse" /\ result[u] = "UsageError"

(* C8: an operation with an invalid include, an invalid or incompatible    *)
(* release status/type filter or an invalid search field is rejected       *)
(* before the limiter and the transport: it never waits for the lock,      *)
(* refills, sleeps, pays a token or sends; it ends with the validation     *)
(* error, and every step that changes the token count, the refill          *)
(* timestamp or the number of sends is a step of an operation that is not  *)
(* so rejected.  The rejected operations are told from the tables.         *)
SeqRange(s) == {s[i] : i \in 1..Len(s)}

BadInclude(o) ==
    \/ /\ o.kind \in {"get", "get_plain", "browse"}
       /\ ~(SeqRange(o.includes) \subseteq VALID_INCLUDES[o.entity])
    \/ /\ o.kind = "browse"
       /\ ~(SeqRange(o.includes)
              \subseteq VALID_BROWSE_INCLUDES[BrowseKey(o.entity)])

FilterOf(o, which) ==
    IF \/ o.kind = "get"
       \/ o.kind = "browse" /\ o.entity = "release"
       \/ o.kind = "browse" /\ o.entity = "release-group" /\ which = "type"
    THEN SeqRange(AsList(o[which])) ELSE {}

BadFilter(o) ==
    \/ ~(FilterOf(o, "status") \subseteq VALID_RELEASE_STATUSES)
    \/ ~(FilterOf(o, "type") \subseteq VALID_RELEASE_TYPES)
    \/ /\ FilterOf(o, "status") # {}
       /\ "releases" \notin SeqRange(o.includes)
       /\ o.entity # "release"
    \/ /\ FilterOf(o, "type") # {}
       /\ SeqRange(o.includes) \cap {"releases", "release-groups"} = {}
       /\ o.entity \notin {"release", "release-group"}

BadField(o) ==
    /\ o.kind = "search"
    /\ \E i \in 1..Len(o.fields) :
          o.fields[i][1] \notin VALID_SEARCH_FIELDS[o.entity]

Rejected(o) == BadInclude(o) \/ BadFilter(o) \/ BadField(o)

ValidationErrors ==
    {"InvalidIncludeError", "InvalidFilterError", "InvalidSearchFieldError"}

C8_ValidationBeforeLimiter ==
    /\ [](\A t \in Threads :
            Rejected(op[t])
                => /\ pc[t] \in {"idle", "done"}
                   /\ pc[t] = "done" => result[t] \in ValidationErrors)
    /\ [][(\/ remaining_requests' # remaining_requests
           \/ last_call' # last_call
           \/ sends' # sends)
            => \E t \in Threads : pc'[t] # pc[t] /\ ~Rejected(op[t])]_vars

C8_Witness ==
    /\ remaining_requests # <<>>
    /\ \E t, u \in Threads :
          /\ pc[t] = "done" /\ BadFilter(op[t])
          /\ result[t] = "InvalidFilterError"
          /\ pc[u] = "sleep"

KindsWithRelations ==
    {"artist", "label", "recording", "release", "release-group", "work",
     "url", "discid"}

FilterAccepted(a) ==
    LET status == SeqRange(AsList(a.status))
        type == SeqRange(AsList(a.type))
        includes == SeqRange(a.includes)
    IN  /\ status \subseteq VALID_RELEASE_STATUSES
        /\ type \subseteq VALID_RELEASE_TYPES
        /\ status # {} => ("releases" \in includes \/ a.entity = "release")
        /\ type # {} => \/ "release-groups" \in includes
                        \/ "releases" \in includes
                        \/ a.entity \in {"release-group", "release"}

C15_SleepRestoresToken ==
    [][\A t \in Threads :
          limit_requests % Fraction = 0
              => /\ (pc[t] = "sleep" /\ pc'[t] = "wake")
                    => /\ (clock' - clock) * Rate >= One - Rem
                       /\ (clock' - clock - 1) * Rate < One - Rem
                 /\ (pc[t] = "wake" /\ pc'[t] # "wake") => pc'[t] = "fun"]_vars

(* C16 (as stated, in the form a finite run refutes): for every accepted   *)
(* configuration the sleep-and-recheck loop of a caller terminates.  A     *)
(* pass of the loop that ends in another sleep leaves the caller with      *)
(* more tokens than it had: a pass that leaves the count where it was      *)
(* repeats for ever, the sleep being a function of the count and of the    *)
(* configuration alone.                                                    *)
C16_LoopProgress ==
    [][\A t \in Threads :
          (pc[t] = "wake" /\ pc'[t] = "sleep")
              => remaining_requests'[1] > remaining_requests[1]]_vars

(* C14 (as stated): an operation whose request the transport answered     *)
(* with status 401 ends with AuthenticationError, not with the             *)
(* ResponseError of the other statuses.                                    *)
C14_AuthenticationError ==
    \A t \in Threads :
        (pc[t] = "done" /\ status_code[t] = "401")
            => /\ IsInstance(result[t], "AuthenticationError")
               /\ ~IsInstance(result[t], "ResponseError")

(* C11: the request of a lookup, search, browse or collection query         *)
(* carries the credential if and only if "user-tags" or "user-ratings" is  *)
(* among its includes or its entity kind begins with "collection".         *)
BeginsWithCollection == {"collection"}

C11_CredentialAttached ==
    (/\ args.fn \in {"get", "get_plain", "browse", "search", "collection"}
     /\ ret # NoRet /\ ret.err = "OK")
        => (DictGet(ret.params, "auth") = "HTTPDigestAuth"
              <=> \/ "user-tags" \in SeqRange(args.includes)
                  \/ "user-ratings" \in SeqRange(args.includes)
                  \/ args.entity \in BeginsWithCollection)

C11_Witness ==
    /\ args.fn = "browse" /\ args.entity = "recording"
    /\ args.includes = <<"user-ratings", "tags">>
    /\ ret.err = "OK"
    /\ DictGet(ret.params, "auth") = "HTTPDigestAuth"

(* C12 (as stated): a browse goes on to the rate limiter and the transport *)
(* only with exactly one non-empty link parameter; with more than one, or  *)
(* with none, it fails with a UsageError before any network activity.      *)
LinksGiven(o) ==
    {k \in BrowseLinks(o.entity) \cap DOMAIN o.links : o.links[k] # ""}

C12_ExactlyOneLink ==
    \A t \in Threads :
        (op[t].kind = "browse" /\ Cardinality(LinksGiven(op[t])) # 1)
            => /\ pc[t] \in {"idle", "done"}
               /\ pc[t] = "done" => IsInstance(result[t], "UsageError")

(* C13 (as stated): a search without free text and without a field value   *)
(* fails with a UsageError before the rate limiter and the transport.      *)
EmptySearch(o) ==
    /\ o.kind = "search"
    /\ o.query = <<>>
    /\ \A i \in 1..Len(o.fields) : o.fields[i][2] = <<>>

C13_EmptySearchUsageError ==
    \A t \in Threads :
        EmptySearch(op[t])
            => /\ pc[t] \in {"idle", "done"}
               /\ pc[t] = "done" => IsInstance(result[t], "UsageError")

(* C17 (as stated): an operation that fails with UsageError because the    *)
(* client identity is unset leaves the limiter as it was.  While no        *)
(* identity was ever set every operation that reaches _mb_request fails    *)
(* so: when all operations have ended, the limiter is as it was at the     *)
(* start, no token paid and no refill made.                                *)
C17_NoQuotaWithoutIdentity ==
    (_useragent = "" /\ \A t \in Threads : pc[t] \in {"idle", "done"})
        => (remaining_requests = <<>> /\ last_call = 0)

(* C18: the lock is free whenever no caller is inside the rate-limited     *)
(* function; it is held only by a caller between its acquisition and the   *)
(* end of its wrapped call, and that end frees it whatever the wrapped     *)
(* call returned or raised.                                                *)
Inside == {"locked", "sleep", "wake", "fun"}

Outcomes ==
    {"OK", "UsageError", "NetworkError", "ResponseError", "Exception"}

C18_LockFreedOnExit ==
    /\ []((\A t \in Threads : pc[t] \notin Inside) <=> lock = "free")
    /\ [](\A t \in Threads : lock = t => pc[t] \in Inside)
    /\ [][\A t \in Threads :
            (pc[t] = "fun" /\ pc'[t] # "fun")
                => /\ result'[t] \in Outcomes
                   /\ pc'[t] = "done"
                   /\ lock' = "free"]_vars

C18_Witness ==
    \E t, u \in Threads :
        /\ pc[t] = "done" /\ result[t] = "NetworkError"
        /\ pc[u] = "fun" /\ lock = u /\ calls = 2

=============================================================================
